---- MODULE Spec2Model ----
(***************************************************************************)
(* Model of the RAG core of the repository: RAGService.query (retrieval,   *)
(* streamed generation with retry) and RAGService.ingest_bytes_list        *)
(* (parse, chunk, one write to the vector store).                          *)
(*                                                                         *)
(* Texts of questions and answers are sequences of characters.  A page or  *)
(* chunk text is abstracted to its length and to whether it consists of    *)
(* whitespace only ([len, ws]); the collaborators (PDF reader, splitter,   *)
(* vector store, language model) are nondeterministic: each call returns   *)
(* or raises.                                                              *)
(***************************************************************************)
EXTENDS Integers, Sequences, FiniteSets, TLC

\* ------------------------------------------------------------------ bounds
MaxQuestionLen == 2     \* longest question drawn
MaxDeltas == 2          \* most deltas one generation stream emits
MaxK == 2               \* largest k drawn
MaxFiles == 2           \* most files in one ingestion call
MaxIds == 3             \* ids drawn up to which a further ingestion call is made

\* ------------------------------------------------------- program constants
max_attempts_3 == 2 + 1
max_attempts == 2
chunk_size == 300
chunk_overlap == 100
SnippetLen == 300

\* ------------------------------------------------------------ value spaces
None == [type |-> "NoneType"]

\* state of one llm.stream call: still streaming, or ended normally (else the
\* exception it raised)
Open == [type |-> "open", msg |-> ""]
Completed == [type |-> "completed", msg |-> ""]

Whitespace == {" ", "\t"}
Chars == Whitespace \cup {"a"}

SeqsUpTo(S, n) == UNION {[1..m -> S] : m \in 0..n}

Questions == SeqsUpTo(Chars, MaxQuestionLen)

\* what a collaborator may raise
Exceptions ==
  { [type |-> "ValueError", msg |-> "bad request"],
    [type |-> "ConnectionError", msg |-> "connection refused"] }

\* text deltas a stream may emit
Deltas == { <<"a">>, <<"b">> }

VARIABLES
  \* ---- the persistent vector index
  store,          \* sequence of [id, doc]
  nextId,         \* source of fresh ids (uuid4)
  \* ---- one query() call
  qPc,            \* position of the call
  question, k,    \* its arguments
  docs,           \* retrieved documents
  answer,         \* local `answer`
  attempts,       \* local `attempts`
  last_err,       \* local `last_err`
  qRet,           \* returned (answer, sources) or None
  qErr,           \* raised exception or None
  retrieverCalls, \* calls of vector_store.as_retriever in this call
  retrieveCalls,  \* calls of the retriever's retrieval method in this call
  retrieval,      \* outcome of the retrieval stage: "none" | "ok" | "failed"
  llmLog,         \* per llm.stream call: [deltas, outcome]
  sleeps,         \* for each time.sleep(1): the number of the attempt it followed
  \* ---- one ingest_bytes_list() call
  iPc, files, fidx, all_chunks, total_docs,
  parseLog,       \* per processed file: "parse_failed" | "blank" | "split_failed" | "chunked"
  addCalls,       \* batches handed to vector_store.add_documents in this call
  addResult,      \* outcome of add_documents: "none" | "ok" | "failed"
  persistLog,     \* outcome of the optional persist() step
  iRet, iErr,
  \* ---- the HTTP layer (app.py)
  started,        \* the startup event has run
  service,        \* the module-level handle: "None" or "RAGService"
  health,         \* last response of health(), or None
  cPc,            \* position of one chat() request
  cQuestion, cFiles, cK,   \* its form fields
  cResp,          \* its response, or None
  \* ---- ingest_bytes_list() calls running at the same time
  calls           \* per caller: the frame of its call

qvars == <<qPc, question, k, docs, answer, attempts, last_err, qRet, qErr,
           retrieverCalls, retrieveCalls, retrieval, llmLog, sleeps>>
ivars == <<iPc, files, fidx, all_chunks, total_docs, parseLog, addCalls,
           addResult, persistLog, iRet, iErr>>
svars == <<store, nextId>>
cvars == <<started, service, health, cPc, cQuestion, cFiles, cK, cResp>>
pvars == <<calls>>
vars == <<store, nextId, qPc, question, k, docs, answer, attempts, last_err,
          qRet, qErr, retrieverCalls, retrieveCalls, retrieval, llmLog, sleeps,
          iPc, files, fidx, all_chunks, total_docs, parseLog, addCalls,
          addResult, persistLog, iRet, iErr,
          started, service, health, cPc, cQuestion, cFiles, cK, cResp,
          calls>>

\* ------------------------------------------------------------- documents
Text(n, w) == [len |-> n, ws |-> w]
Doc(t, s, p) == [page_content |-> t, source |-> s, page |-> p]

\* contents the index may hold when the process starts
SampleStores ==
  { <<>>,
    << [id |-> 1, doc |-> Doc(Text(450, FALSE), "old.pdf", 1)],
       [id |-> 2, doc |-> Doc(Text(120, FALSE), "old.pdf", 2)] >> }

\* RAGError, had its message carried the text of the exception it replaces
RAGError_Leak(m, c) ==
  [type |-> "RAGError", msg |-> IF c = None THEN m ELSE c.msg, cause |-> c]
RAGError(m, c) == [type |-> "RAGError", msg |-> m, cause |-> c]
ValueError(m) == [type |-> "ValueError", msg |-> m, cause |-> None]

Min(a, b) == IF a <= b THEN a ELSE b

\* ------------------------------------------------------------------ query
\* str.strip(): drop leading and trailing whitespace
RECURSIVE LStrip(_)
LStrip(s) ==
  IF s = <<>> THEN <<>>
  ELSE IF Head(s) \in Whitespace THEN LStrip(Tail(s)) ELSE s

RECURSIVE RStrip(_)
RStrip(s) ==
  IF s = <<>> THEN <<>>
  ELSE IF s[Len(s)] \in Whitespace THEN RStrip(SubSeq(s, 1, Len(s) - 1)) ELSE s

Strip(s) == RStrip(LStrip(s))

\* `not question or not question.strip()`
IsBlank_NoStrip(q) == q = <<>>
IsBlank(q) == q = <<>> \/ Strip(q) = <<>>

\* (d.page_content or "")[:300], as the length of the prefix taken
Snippet_Full(t) == [prefix_len |-> t.len]
Snippet(t) == [prefix_len |-> Min(t.len, SnippetLen)]

\* the `sources` list comprehension
Sources(ds) ==
  [i \in 1..Len(ds) |->
     [source |-> ds[i].source, page |-> ds[i].page,
      snippet |-> Snippet(ds[i].page_content)]]

\* what the retriever may return: the min(k, n) best entries, in some order
RetrievalResults(st, kk) ==
  { r \in [1..Min(kk, Len(st)) -> 1..Len(st)] :
      \A i, j \in 1..Min(kk, Len(st)) : i # j => r[i] # r[j] }

QTerminal == {"Done", "RetrievalError", "Failed", "ValidationError"}

\* where a retrieval failure leaves the call
RetrievalFailedPc_Swallow == "Generating"
RetrievalFailedPc == "RetrievalError"

\* where exhausted retries leave the call
ExhaustedPc_Partial == "Done"
ExhaustedPc == "Failed"

\* query(question, k) is called; the blank test runs
QueryCall(q, kk) ==
  /\ qPc = "Idle"
  /\ question' = q
  /\ k' = kk
  /\ docs' = <<>>
  /\ answer' = <<>>
  /\ attempts' = 0
  /\ last_err' = None
  /\ qRet' = None
  /\ retrieverCalls' = 0
  /\ retrieveCalls' = 0
  /\ retrieval' = "none"
  /\ llmLog' = <<>>
  /\ sleeps' = <<>>
  /\ IF IsBlank(q)
       THEN /\ qPc' = "ValidationError"
            /\ qErr' = ValueError("Empty question provided")
       ELSE /\ qPc' = "Retrieving"
            /\ qErr' = None
  /\ UNCHANGED <<svars, ivars, cvars, pvars>>

\* a failed retrieval stage: the exception is replaced by a RAGError
RetrievalFails(m) ==
  /\ qPc' = RetrievalFailedPc
  /\ retrieval' = "failed"
  /\ IF RetrievalFailedPc = "RetrievalError"
       THEN /\ qErr' = RAGError(m, None)
            /\ llmLog' = llmLog
       ELSE /\ qErr' = qErr
            /\ llmLog' = Append(llmLog, [deltas |-> <<>>, outcome |-> Open])
  /\ UNCHANGED <<question, k, docs, answer, attempts, last_err, qRet, sleeps>>

\* vector_store.as_retriever(search_kwargs={"k": k})
CreateRetriever ==
  /\ qPc = "Retrieving"
  /\ retrieverCalls' = retrieverCalls + 1
  /\ \/ /\ qPc' = "Fetching"
        /\ UNCHANGED <<question, k, docs, answer, attempts, last_err, qRet,
                       qErr, retrieval, llmLog, sleeps>>
     \/ RetrievalFails("Retrieval layer unavailable")
  /\ UNCHANGED <<retrieveCalls, svars, ivars, cvars, pvars>>

\* the retrieval call succeeds; knowledge and prompt are built, the retry
\* loop is entered and llm.stream is called for attempt 1
RetrieveOk ==
  /\ qPc = "Fetching"
  /\ retrieveCalls' = retrieveCalls + 1
  /\ retrieval' = "ok"
  /\ \E r \in RetrievalResults(store, k) :
       docs' = [i \in DOMAIN r |-> store[r[i]].doc]
  /\ attempts' = 0
  /\ answer' = <<>>
  /\ last_err' = None
  /\ IF 0 < max_attempts
       THEN /\ qPc' = "Generating"
            /\ llmLog' = Append(llmLog, [deltas |-> <<>>, outcome |-> Open])
            /\ qErr' = qErr
       ELSE /\ qPc' = ExhaustedPc
            /\ llmLog' = llmLog
            /\ qErr' = RAGError("LLM call failed", None)
  /\ UNCHANGED <<question, k, qRet, retrieverCalls, sleeps, svars, ivars, cvars, pvars>>

\* the retrieval call raises (or the retriever has no supported method)
RetrieveFail ==
  /\ qPc = "Fetching"
  /\ \E called \in BOOLEAN :
       retrieveCalls' = IF called THEN retrieveCalls + 1 ELSE retrieveCalls
  /\ RetrievalFails("Retrieval failed")
  /\ UNCHANGED <<retrieverCalls, svars, ivars, cvars, pvars>>

CurDeltas == llmLog[Len(llmLog)].deltas

\* the stream yields one more delta: answer += content
StreamDelta(d) ==
  /\ qPc = "Generating"
  /\ Len(CurDeltas) < MaxDeltas
  /\ answer' = answer \o d
  /\ llmLog' = [llmLog EXCEPT ![Len(llmLog)].deltas = Append(@, d)]
  /\ UNCHANGED <<qPc, question, k, docs, attempts, last_err, qRet, qErr,
                 retrieverCalls, retrieveCalls, retrieval, sleeps, svars, ivars, cvars, pvars>>

\* StreamEnd, had it also stored the question and answer in the index
StreamEnd_Indexing ==
  /\ qPc = "Generating"
  /\ llmLog' = [llmLog EXCEPT ![Len(llmLog)].outcome = Completed]
  /\ qRet' = [answer |-> answer, sources |-> Sources(docs)]
  /\ qPc' = "Done"
  /\ store' = Append(store, [id |-> nextId,
                             doc |-> Doc(Text(Len(answer), FALSE), "chat", 1)])
  /\ nextId' = nextId + 1
  /\ UNCHANGED <<question, k, docs, answer, attempts, last_err, qErr,
                 retrieverCalls, retrieveCalls, retrieval, sleeps, ivars, cvars, pvars>>

\* the stream ends normally: sources are built and the call returns
StreamEnd ==
  /\ qPc = "Generating"
  /\ llmLog' = [llmLog EXCEPT ![Len(llmLog)].outcome = Completed]
  /\ qRet' = [answer |-> answer, sources |-> Sources(docs)]
  /\ qPc' = "Done"
  /\ UNCHANGED <<question, k, docs, answer, attempts, last_err, qErr,
                 retrieverCalls, retrieveCalls, retrieval, sleeps, svars, ivars, cvars, pvars>>

\* the stream (or the call that opens it) raises e: the except block runs,
\* then the loop test, then either the next llm.stream call or the final raise
StreamFail(e) ==
  /\ qPc = "Generating"
  /\ last_err' = e
  /\ attempts' = attempts + 1
  /\ sleeps' = Append(sleeps, attempts + 1)
  /\ IF attempts + 1 < max_attempts
       THEN /\ llmLog' = Append([llmLog EXCEPT ![Len(llmLog)].outcome = e],
                                [deltas |-> <<>>, outcome |-> Open])
            /\ qPc' = "Generating"
            /\ UNCHANGED <<qErr, qRet>>
       ELSE /\ llmLog' = [llmLog EXCEPT ![Len(llmLog)].outcome = e]
            /\ qPc' = ExhaustedPc
            /\ IF ExhaustedPc = "Failed"
                 THEN /\ qErr' = RAGError("LLM call failed", e)
                      /\ qRet' = qRet
                 ELSE /\ qErr' = qErr
                      /\ qRet' = [answer |-> answer, sources |-> Sources(docs)]
  /\ UNCHANGED <<question, k, docs, answer, retrieverCalls, retrieveCalls,
                 retrieval, svars, ivars, cvars, pvars>>

\* -------------------------------------------------------------- ingestion
\* what page.extract_text() gives for one page: it raises, or returns a text
Raises == [raises |-> TRUE, text |-> Text(0, TRUE)]
Extracted(n, w) == [raises |-> FALSE, text |-> Text(n, w)]

\* the PDFs drawn: whether PdfReader can open the bytes, and the pages
Pdfs ==
  { [readable |-> FALSE, pages |-> <<>>],
    [readable |-> TRUE,  pages |-> <<>>],
    [readable |-> TRUE,  pages |-> << Extracted(3, TRUE) >>],
    [readable |-> TRUE,  pages |-> << Extracted(120, FALSE), Extracted(0, TRUE) >>],
    [readable |-> TRUE,  pages |-> << Raises, Extracted(120, FALSE) >>],
    [readable |-> TRUE,  pages |-> << Extracted(301, FALSE) >>] }

\* the names a caller may pass: any string, the empty one included
FileNames == {"a.pdf", ""}

\* an uploaded file: its name and its bytes
Files ==
  { [name |-> n, readable |-> p.readable, pages |-> p.pages] :
      n \in FileNames, p \in Pdfs }

FileLists == SeqsUpTo(Files, MaxFiles)

\* _pdf_bytes_to_documents: one Document per page, pages numbered from 1;
\* a page whose extraction raises has the empty text
PdfToDocuments(f) ==
  [i \in 1..Len(f.pages) |->
     Doc(IF f.pages[i].raises THEN Text(0, TRUE) ELSE f.pages[i].text,
         f.name, i)]

\* any((d.page_content or "").strip() for d in documents)
HasText(documents) ==
  \E i \in 1..Len(documents) :
     documents[i].page_content.len > 0 /\ ~documents[i].page_content.ws

\* RecursiveCharacterTextSplitter(chunk_size, chunk_overlap) on one text
\* without separators: nothing for a whitespace-only text, else windows of at
\* most chunk_size characters, each starting chunk_size - chunk_overlap after
\* the one before
RECURSIVE Windows(_)
Windows(n) ==
  IF n <= chunk_size THEN << Text(n, FALSE) >>
  ELSE << Text(chunk_size, FALSE) >> \o Windows(n - (chunk_size - chunk_overlap))

SplitText(t) == IF t.len = 0 \/ t.ws THEN <<>> ELSE Windows(t.len)

\* split_documents: the chunks of each document in order, metadata preserved
RECURSIVE SplitDocuments(_)
SplitDocuments(documents) ==
  IF documents = <<>> THEN <<>>
  ELSE LET d == Head(documents)
           ws == SplitText(d.page_content)
       IN [j \in 1..Len(ws) |-> Doc(ws[j], d.source, d.page)]
            \o SplitDocuments(Tail(documents))

ITerminal == {"Returned", "ValueError", "RAGError"}

\* what is left of the accumulated chunks when a file is skipped (`continue`)
OnSkip_Reset(chunks) == <<>>
OnSkip(chunks) == chunks

\* where a failed add_documents leaves the call
WriteFailedPc_Swallow == "Returned"
WriteFailedPc == "RAGError"

\* where a failed persist() leaves the call: the inner except absorbs it
PersistFailedPc_Propagate == "RAGError"
PersistFailedPc == "Returned"

\* ingest_bytes_list(files) is called; the empty-list test runs
IngestCall(fs) ==
  /\ iPc = "Idle"
  /\ files' = fs
  /\ IF fs = <<>>
       THEN /\ iPc' = "ValueError"
            /\ iErr' = ValueError("No files provided for ingestion")
       ELSE /\ iPc' = "Loop"
            /\ iErr' = None
  /\ fidx' = 1
  /\ all_chunks' = <<>>
  /\ total_docs' = 0
  /\ parseLog' = <<>>
  /\ addCalls' = <<>>
  /\ addResult' = "none"
  /\ persistLog' = "none"
  /\ iRet' = None
  /\ UNCHANGED <<svars, qvars, cvars, pvars>>

\* after the loop body for file fidx: next file, or the code after the loop
\* (early return on no chunks, else ids are drawn and add_documents is called)
AfterFile(chunks) ==
  /\ all_chunks' = chunks
  /\ fidx' = fidx + 1
  /\ IF fidx < Len(files)
       THEN /\ iPc' = "Loop"
            /\ UNCHANGED addCalls
       ELSE IF chunks = <<>>
         THEN /\ iPc' = "Returned"
              /\ UNCHANGED addCalls
         ELSE /\ iPc' = "Writing"
              /\ addCalls' = Append(addCalls, chunks)
  /\ UNCHANGED <<files, addResult, persistLog, iRet, iErr, svars, qvars, cvars, pvars>>

\* the loop body for a file PdfReader cannot open
FileParseFails ==
  /\ iPc = "Loop"
  /\ ~files[fidx].readable
  /\ parseLog' = Append(parseLog, "parse_failed")
  /\ UNCHANGED total_docs
  /\ AfterFile(OnSkip(all_chunks))

\* the loop body for a file that parses but has no text on any page
FileBlank ==
  /\ iPc = "Loop"
  /\ files[fidx].readable
  /\ ~HasText(PdfToDocuments(files[fidx]))
  /\ total_docs' = total_docs + Len(PdfToDocuments(files[fidx]))
  /\ parseLog' = Append(parseLog, "blank")
  /\ AfterFile(OnSkip(all_chunks))

\* the loop body for a file with text whose split raises
FileSplitFails ==
  /\ iPc = "Loop"
  /\ files[fidx].readable
  /\ HasText(PdfToDocuments(files[fidx]))
  /\ total_docs' = total_docs + Len(PdfToDocuments(files[fidx]))
  /\ parseLog' = Append(parseLog, "split_failed")
  /\ AfterFile(OnSkip(all_chunks))

\* the loop body for a file with text: its chunks are appended
FileChunked ==
  /\ iPc = "Loop"
  /\ files[fidx].readable
  /\ HasText(PdfToDocuments(files[fidx]))
  /\ total_docs' = total_docs + Len(PdfToDocuments(files[fidx]))
  /\ parseLog' = Append(parseLog, "chunked")
  /\ AfterFile(all_chunks \o SplitDocuments(PdfToDocuments(files[fidx])))

\* add_documents(documents, ids) on the store: an entry whose id is already
\* present replaces the stored one, any other is appended
RECURSIVE Upsert(_, _)
Upsert(st, es) ==
  IF es = <<>> THEN st
  ELSE LET e == Head(es)
           hit == {j \in 1..Len(st) : st[j].id = e.id}
       IN Upsert(IF hit = {} THEN Append(st, e)
                 ELSE [j \in 1..Len(st) |-> IF j \in hit THEN e ELSE st[j]],
                 Tail(es))

\* Written, had the ids been keys derived from the position in the batch
Written_Keyed(chunks, n) ==
  [i \in 1..n |-> [id |-> 2 + i, doc |-> chunks[i]]]

\* the entries add_documents writes for the first n chunks under fresh ids
Written(chunks, n) ==
  [i \in 1..n |-> [id |-> nextId + i - 1, doc |-> chunks[i]]]

\* add_documents succeeds; persist() is absent, succeeds or fails (absorbed);
\* the counts are logged and the function returns nothing
AddDocumentsOk ==
  /\ iPc = "Writing"
  /\ store' = Upsert(store, Written(all_chunks, Len(all_chunks)))
  /\ nextId' = nextId + Len(all_chunks)
  /\ addResult' = "ok"
  /\ iRet' = None
  /\ \E p \in {"absent", "ok", "failed"} :
       /\ persistLog' = p
       /\ iPc' = IF p = "failed" THEN PersistFailedPc ELSE "Returned"
       /\ iErr' = IF p = "failed" /\ PersistFailedPc = "RAGError"
                    THEN RAGError("Failed to write to vector store", None)
                    ELSE iErr
  /\ UNCHANGED <<files, fidx, all_chunks, total_docs, parseLog, addCalls,
                 qvars, cvars, pvars>>

\* add_documents raises, after writing some (possibly none) of the batch
AddDocumentsFail ==
  /\ iPc = "Writing"
  /\ \E n \in 0..(Len(all_chunks) - 1) :
       store' = Upsert(store, Written(all_chunks, n))
  /\ nextId' = nextId + Len(all_chunks)
  /\ addResult' = "failed"
  /\ iPc' = WriteFailedPc
  /\ iErr' = IF WriteFailedPc = "RAGError"
               THEN RAGError("Failed to write to vector store", None)
               ELSE iErr
  /\ UNCHANGED <<files, fidx, all_chunks, total_docs, parseLog, addCalls,
                 persistLog, iRet, qvars, cvars, pvars>>

\* the call is over: its frame is dropped and the caller may ingest again
IngestReturn ==
  /\ iPc \in ITerminal
  /\ nextId - 3 < MaxIds
  /\ iPc' = "Idle"
  /\ files' = <<>>
  /\ fidx' = 1
  /\ all_chunks' = <<>>
  /\ total_docs' = 0
  /\ parseLog' = <<>>
  /\ addCalls' = <<>>
  /\ addResult' = "none"
  /\ persistLog' = "none"
  /\ iRet' = None
  /\ iErr' = None
  /\ UNCHANGED <<svars, qvars, cvars, pvars>>

\* the callers that ingest at the same time, and a frame before its call
Callers == {1, 2}
IdleFrame ==
  [pc |-> "Idle", files |-> <<>>, fidx |-> 1, all_chunks |-> <<>>,
   entries |-> <<>>, written |-> 0, addResult |-> "none"]

\* ---------------------------------------------------------- specifications
Init ==
  /\ store \in SampleStores
  /\ nextId = 3
  /\ qPc = "Idle"
  /\ question = <<>>
  /\ k = 1
  /\ docs = <<>>
  /\ answer = <<>>
  /\ attempts = 0
  /\ last_err = None
  /\ qRet = None
  /\ qErr = None
  /\ retrieverCalls = 0
  /\ retrieveCalls = 0
  /\ retrieval = "none"
  /\ llmLog = <<>>
  /\ sleeps = <<>>
  /\ iPc = "Idle"
  /\ files = <<>>
  /\ fidx = 1
  /\ all_chunks = <<>>
  /\ total_docs = 0
  /\ parseLog = <<>>
  /\ addCalls = <<>>
  /\ addResult = "none"
  /\ persistLog = "none"
  /\ iRet = None
  /\ iErr = None
  /\ started = FALSE
  /\ service = "None"
  /\ health = None
  /\ cPc = "Idle"
  /\ cQuestion = <<>>
  /\ cFiles = <<>>
  /\ cK = 1
  /\ cResp = None
  /\ calls = [c \in Callers |-> IdleFrame]

\* the query pipeline: one query() call against the index as it stands
Next ==
  \/ \E q \in Questions, kk \in 1..MaxK : QueryCall(q, kk)
  \/ CreateRetriever
  \/ RetrieveOk
  \/ RetrieveFail
  \/ \E d \in Deltas : StreamDelta(d)
  \/ StreamEnd
  \/ \E e \in Exceptions : StreamFail(e)

Spec == Init /\ [][Next]_vars

\* every collaborator call of the running query() returns or raises
FairSpec == Spec /\ WF_vars(Next)

\* the ingestion pipeline: one ingest_bytes_list() call
NextIngest ==
  \/ \E fs \in FileLists : IngestCall(fs)
  \/ FileParseFails
  \/ FileBlank
  \/ FileSplitFails
  \/ FileChunked
  \/ AddDocumentsOk
  \/ AddDocumentsFail

SpecIngest == Init /\ [][NextIngest]_vars

\* ------------------------------------------------------- claims on query()
RECURSIVE Concat(_)
Concat(ss) == IF ss = <<>> THEN <<>> ELSE Head(ss) \o Concat(Tail(ss))

Failure(o) == o \in Exceptions

\* C1: when attempt 1 emits some deltas and fails and attempt 2 succeeds, the
\* returned answer is the concatenation of the deltas of attempt 2 only.
RetryIdempotence ==
  (qPc = "Done" /\ Len(llmLog) = 2)
    => qRet.answer = Concat(llmLog[2].deltas)

\* C2: when every generation attempt fails there are exactly 2 attempts, never
\* a third, and the call fails with RAGError "LLM call failed" caused by the
\* failure of the last attempt, returning nothing.
TwoAttemptsThenGenerationError ==
  /\ Len(llmLog) <= 2
  /\ qPc = "Failed" =>
       /\ Len(llmLog) = 2
       /\ \A i \in 1..2 : Failure(llmLog[i].outcome)
       /\ qErr = RAGError("LLM call failed", llmLog[2].outcome)
       /\ qRet = None
  /\ (qPc \in QTerminal /\ llmLog # <<>>
        /\ \A i \in 1..Len(llmLog) : Failure(llmLog[i].outcome))
       => qPc = "Failed"

\* a call whose two attempts failed with different errors after emitting text
BothAttemptsFailed ==
  /\ qPc = "Failed"
  /\ llmLog[1].deltas # <<>>
  /\ llmLog[1].outcome # llmLog[2].outcome

\* C3: the 1-second delay happens only between two attempts: one delay (after
\* attempt 1) when both attempts fail, none when attempt 1 succeeds.
DelayOnlyBetweenAttempts ==
  /\ qPc = "Failed" => sleeps = <<1>>
  /\ (qPc = "Done" /\ Len(llmLog) = 1) => sleeps = <<>>

\* C4: a failed retrieval stage is terminal and not retried: one retriever
\* creation, at most one retrieval call, RAGError raised, the language model
\* never invoked, and no step leads from the failed retrieval to Generating.
RetrievalFailureTerminal ==
  /\ [](retrieval = "failed" =>
          /\ qPc = "RetrievalError"
          /\ retrieverCalls = 1
          /\ retrieveCalls <= 1
          /\ llmLog = <<>>
          /\ qErr.type = "RAGError"
          /\ qErr.msg \in {"Retrieval layer unavailable", "Retrieval failed"}
          /\ qRet = None)
  /\ [][retrieval = "failed" => qPc' # "Generating"]_vars

\* a call whose retrieval call was made and raised
RetrievalCallFailed ==
  /\ qPc = "RetrievalError"
  /\ retrieveCalls = 1

\* the per-call state machine
QEdges ==
  { <<"Idle", "Retrieving">>, <<"Idle", "ValidationError">>,
    <<"Retrieving", "Fetching">>, <<"Retrieving", "RetrievalError">>,
    <<"Fetching", "Generating">>, <<"Fetching", "RetrievalError">>,
    <<"Generating", "Generating">>, <<"Generating", "Done">>,
    <<"Generating", "Failed">> }

AllWhitespace(q) == \A i \in 1..Len(q) : q[i] \in Whitespace

\* C6: the validation error is raised for every empty or whitespace-only
\* question, before any retrieval or generation call, and for no question
\* with a non-whitespace character, whatever the collaborators raise.
ValidationIffBlank ==
  qPc # "Idle" =>
    /\ (qErr.type = "ValueError") <=> AllWhitespace(question)
    /\ AllWhitespace(question) =>
         /\ qPc = "ValidationError"
         /\ retrieverCalls = 0
         /\ retrieveCalls = 0
         /\ llmLog = <<>>

\* a whitespace-only, non-empty question was rejected
WhitespaceQuestionRejected ==
  /\ qPc = "ValidationError"
  /\ Len(question) = MaxQuestionLen

\* a non-blank question whose generation failed with a ValueError of the model
NonBlankSurvivesValueError ==
  /\ qPc = "Failed"
  /\ ~AllWhitespace(question)
  /\ last_err.type = "ValueError"

\* ------------------------------------------- claims on ingest_bytes_list()
\* the report of the ingestion contract
IngestionReport(c, p) ==
  [type |-> "IngestionReport", chunks_written |-> c, pages_seen |-> p]

\* the loop has run over every file
LoopDone == iPc \in {"Writing", "Returned", "RAGError"}

\* a file that parsed and has a page with non-blank text
Indexable(f) ==
  /\ f.readable
  /\ \E i \in 1..Len(f.pages) :
       /\ ~f.pages[i].raises
       /\ f.pages[i].text.len > 0
       /\ ~f.pages[i].text.ws

\* C7: an empty file list always fails with the validation error; a non-empty
\* list in which no file is indexable returns a zero-count report without
\* raising and writes nothing to the index.
EmptyListRejectedElseZeroReport ==
  /\ (iPc # "Idle" /\ files = <<>>) =>
       iPc = "ValueError" /\ iErr.type = "ValueError"
  /\ (iPc \in ITerminal /\ files # <<>>
        /\ \A i \in 1..Len(files) : ~Indexable(files[i])) =>
       /\ iPc = "Returned"
       /\ iRet = IngestionReport(0, 0)
       /\ addCalls = <<>>

\* the chunks of page i of file f: one per window of its text
PageChunks(f, i) ==
  IF f.pages[i].raises THEN <<>>
  ELSE LET ws == SplitText(f.pages[i].text)
       IN [j \in 1..Len(ws) |-> Doc(ws[j], f.name, i)]

\* what file i of the list contributes to the batch
Contribution(i) ==
  IF Indexable(files[i]) /\ parseLog[i] # "split_failed"
    THEN Concat([p \in 1..Len(files[i].pages) |-> PageChunks(files[i], p)])
    ELSE <<>>

\* C8: a parse failure, all-blank result or split failure of one file is
\* absorbed and changes nothing for the other files: the batch handed to the
\* index is the concatenation, in input order, of the chunks of the files that
\* parsed and contain non-blank text, wherever the failing files sit.
PerFileIsolation ==
  /\ iPc \in {"Loop", "Writing", "Returned", "RAGError"} =>
       all_chunks = Concat([i \in 1..Len(parseLog) |-> Contribution(i)])
  /\ LoopDone => Len(parseLog) = Len(files)
  /\ addCalls # <<>> =>
       addCalls[1] = Concat([i \in 1..Len(files) |-> Contribution(i)])

\* a batch is being written although the file after an indexed one failed
FailureAfterIndexedFile ==
  /\ iPc = "Writing"
  /\ Len(files) >= 2
  /\ parseLog[1] = "chunked"
  /\ parseLog[2] \in {"parse_failed", "blank", "split_failed"}

\* C9: a non-empty chunk set is written with exactly one add_documents call
\* covering the full batch, issued after every file was processed; when that
\* write fails the call raises RAGError "Failed to write to vector store" and
\* returns nothing, and nothing else aborts a call with a non-empty file list.
SingleWriteAfterAllFiles ==
  /\ Len(addCalls) <= 1
  /\ addCalls # <<>> =>
       /\ Len(parseLog) = Len(files)
       /\ addCalls[1] = all_chunks
       /\ all_chunks # <<>>
  /\ (LoopDone /\ all_chunks # <<>>) => Len(addCalls) = 1
  /\ addResult = "failed" =>
       /\ iPc = "RAGError"
       /\ iErr = RAGError("Failed to write to vector store", None)
       /\ iRet = None
  /\ (files # <<>> /\ iPc \in ITerminal /\ iPc # "Returned") =>
       iPc = "RAGError" /\ addResult = "failed"

\* the write of a batch of several chunks failed part-way
WriteFailed ==
  /\ iPc = "RAGError"
  /\ Len(addCalls[1]) >= 2
  /\ Len(store) \in {1, 3}

RECURSIVE Sum(_)
Sum(ns) == IF ns = <<>> THEN 0 ELSE Head(ns) + Sum(Tail(ns))

\* C10: a successful call returns an IngestionReport whose pages_seen is the
\* number of pages of all files that parsed (blank pages included) and whose
\* chunks_written is the number of chunks written to the index in the call.
ReportCounts ==
  (iPc = "Returned" /\ addResult = "ok") =>
    iRet = IngestionReport(
             Len(addCalls[1]),
             Sum([i \in 1..Len(files) |->
                    IF files[i].readable THEN Len(files[i].pages) ELSE 0]))


\* C11: on every successful query(), sources has one entry per retrieved
\* document, in retrieval order; entry i has the source and page of document i
\* and a snippet that is the prefix of its text of length min(300, len(text)),
\* so no snippet is longer than 300.
SourcesMatchRetrieved ==
  qPc = "Done" =>
    /\ Len(qRet.sources) = Len(docs)
    /\ \A i \in 1..Len(docs) :
         /\ qRet.sources[i].source = docs[i].source
         /\ qRet.sources[i].page = docs[i].page
         /\ qRet.sources[i].snippet.prefix_len =
              (IF docs[i].page_content.len > 300
                 THEN 300 ELSE docs[i].page_content.len)
         /\ qRet.sources[i].snippet.prefix_len <= 300

\* a successful call that retrieved a document longer than a snippet
DoneWithLongDocument ==
  /\ qPc = "Done"
  /\ Len(docs) >= 2
  /\ docs[2].page_content.len > 300


\* C20: once add_documents has succeeded, a failure of the optional persist()
\* step is absorbed and the call completes without raising; the index-write
\* error is raised if and only if add_documents itself fails.
PersistFailureAbsorbed ==
  /\ persistLog = "failed" =>
       /\ addResult = "ok"
       /\ iPc = "Returned"
       /\ iErr = None
  /\ persistLog # "none" => addResult = "ok"
  /\ iPc = "RAGError" <=> addResult = "failed"
  /\ iErr.type = "RAGError" <=> addResult = "failed"

\* a call returned although persist() failed after the write
ReturnedAfterPersistFailure ==
  /\ iPc = "Returned"
  /\ persistLog = "failed"
  /\ Len(store) >= 3


\* C19: query() never writes to the vector index: whatever its outcome
\* (validation error, retrieval error, success, failure after retries) no step
\* of it changes the indexed chunks or draws an id.
QueryLeavesIndexAlone == [][store' = store /\ nextId' = nextId]_vars

\* each outcome of query() against a non-empty index
QueryEndedOnIndex ==
  /\ qPc \in QTerminal
  /\ store # <<>>


\* the page of file f that document d comes from has non-blank text
FromPageOf(d, f) ==
  /\ f.readable
  /\ d.source = f.name
  /\ d.page \in 1..Len(f.pages)
  /\ ~f.pages[d.page].raises
  /\ ~f.pages[d.page].text.ws

\* C16: every page unit and chunk produced by ingestion, and every entry
\* written to the index, carries a non-empty source and the 1-indexed number
\* of its originating page, for every filename the caller may pass.
SourceAndPageCarried ==
  /\ \A i \in 1..Len(parseLog) : \A p \in 1..Len(files[i].pages) :
       /\ PdfToDocuments(files[i])[p].source # ""
       /\ PdfToDocuments(files[i])[p].page = p
  /\ \A j \in 1..Len(all_chunks) :
       /\ all_chunks[j].source # ""
       /\ all_chunks[j].page >= 1
       /\ \E i \in 1..Len(files) : FromPageOf(all_chunks[j], files[i])
  /\ \A j \in 1..Len(store) :
       store[j].id >= 3 =>
         /\ store[j].doc.source # ""
         /\ store[j].doc.page >= 1
         /\ \E i \in 1..Len(files) : FromPageOf(store[j].doc, files[i])


\* ------------------------------------------------- repeated ingestion calls
\* one document per call, under the same name each time
SingleFileLists == { <<f>> : f \in {g \in Files : g.name = "a.pdf"} }

\* ingestion calls one after the other on the same index
NextReingest ==
  \/ \E fs \in SingleFileLists : IngestCall(fs)
  \/ FileParseFails
  \/ FileBlank
  \/ FileSplitFails
  \/ FileChunked
  \/ AddDocumentsOk
  \/ AddDocumentsFail
  \/ IngestReturn

SpecReingest == Init /\ [][NextReingest]_vars

\* C14: after any sequence of ingestion calls all ids in the index are
\* pairwise distinct, no step overwrites or removes an entry, and each
\* successful write grows the index by its whole batch, so re-ingesting a file
\* adds a second full set of chunks under new ids.
IdsDistinctChunksAccumulate ==
  /\ [](\A i, j \in 1..Len(store) : i # j => store[i].id # store[j].id)
  /\ [][/\ Len(store') >= Len(store)
        /\ SubSeq(store', 1, Len(store)) = store]_vars
  /\ [][(iPc = "Writing" /\ iPc' = "Returned")
          => Len(store') = Len(store) + Len(all_chunks)]_vars

\* the same chunk is in the index twice, written by two calls
SameFileIngestedTwice ==
  /\ iPc = "Returned"
  /\ \E i, j \in 1..Len(store) :
       /\ i < j
       /\ store[i].id >= 3
       /\ store[i].doc = store[j].doc


\* ------------------------------------------------------------ the HTTP layer
\* what calling a method on the handle None raises
AttributeError ==
  [type |-> "AttributeError",
   msg |-> "'NoneType' object has no attribute", cause |-> None]

\* HTTPException(status_code, detail) as rendered by the exception handler
Resp(status, detail) == [status |-> status, detail |-> detail, body |-> None]

\* JSONResponse({"answer": answer, "sources": sources})
Ok(ret) == [status |-> 200, detail |-> "", body |-> ret]

\* f"Failed to read file {f.filename}"
ReadFailedDetail(name) ==
  IF name = "" THEN "Failed to read file " ELSE "Failed to read file a.pdf"

\* the except clauses around service.ingest_bytes_list
IngestErrorResp(e) ==
  IF e.type = "ValueError" THEN Resp(400, e.msg)
  ELSE IF e.type = "RAGError" THEN Resp(500, e.msg)
  ELSE Resp(500, "Ingestion failed")

\* the except clauses around service.query
QueryErrorResp_Flat(e) ==
  IF e.type = "ValueError" THEN Resp(400, e.msg)
  ELSE IF e.type = "RAGError" THEN Resp(500, e.msg)
  ELSE Resp(500, "Internal server error")
QueryErrorResp(e) ==
  IF e.type = "ValueError" THEN Resp(400, e.msg)
  ELSE IF e.type = "RAGError" THEN Resp(502, e.msg)
  ELSE Resp(500, "Internal server error")

\* where chat() is after an ingestion error: the HTTPException ends it
AfterIngestError_Continue == "Query"
AfterIngestError == "Responded"

\* the form fields drawn
ChatQuestions == {q \in Questions : Len(q) <= 1}
ChatUploads == {<<>>} \cup { <<f>> : f \in {g \in Files : g.name = "a.pdf"} }
ChatKs == {1}

CTerminal == {"Responded"}

\* startup_event: RAGService() is constructed, or raises and is only logged
Startup ==
  /\ ~started
  /\ started' = TRUE
  /\ \E ok \in BOOLEAN : service' = IF ok THEN "RAGService" ELSE "None"
  /\ UNCHANGED <<health, cPc, cQuestion, cFiles, cK, cResp, svars, qvars, ivars, pvars>>

\* GET /health
Health ==
  /\ started
  /\ health' = [status |-> "ok"]
  /\ UNCHANGED <<started, service, cPc, cQuestion, cFiles, cK, cResp,
                 svars, qvars, ivars, pvars>>

\* POST /chat arrives: the blank test, then every uploaded file is read
ChatCall(q, ups, kk) ==
  /\ started
  /\ cPc = "Idle"
  /\ cQuestion' = q
  /\ cFiles' = ups
  /\ cK' = kk
  /\ IF IsBlank(q)
       THEN /\ cResp' = Resp(400, "Question is required")
            /\ cPc' = "Responded"
       ELSE IF ups = <<>>
         THEN /\ cResp' = cResp
              /\ cPc' = "Query"
         ELSE \E bad \in 0..Len(ups) :
                IF bad = 0
                  THEN /\ cResp' = cResp
                       /\ cPc' = "Ingest"
                  ELSE /\ cResp' = Resp(400, ReadFailedDetail(ups[bad].name))
                       /\ cPc' = "Responded"
  /\ UNCHANGED <<started, service, health, svars, qvars, ivars, pvars>>

\* service.ingest_bytes_list(file_bytes) on the handle None
ChatIngestNoService ==
  /\ cPc = "Ingest"
  /\ iPc = "Idle"
  /\ service = "None"
  /\ cResp' = IngestErrorResp(AttributeError)
  /\ cPc' = AfterIngestError
  /\ UNCHANGED <<started, service, health, cQuestion, cFiles, cK,
                 svars, qvars, ivars, pvars>>

\* service.ingest_bytes_list(file_bytes) is called
ChatIngestCall ==
  /\ cPc = "Ingest"
  /\ service = "RAGService"
  /\ IngestCall(cFiles)

\* service.ingest_bytes_list returned or raised
ChatAfterIngest ==
  /\ cPc = "Ingest"
  /\ iPc \in ITerminal
  /\ IF iPc = "Returned"
       THEN /\ cPc' = "Query"
            /\ cResp' = cResp
       ELSE /\ cPc' = AfterIngestError
            /\ cResp' = IngestErrorResp(iErr)
  /\ UNCHANGED <<started, service, health, cQuestion, cFiles, cK,
                 svars, qvars, ivars, pvars>>

\* service.query(question, k) on the handle None
ChatQueryNoService ==
  /\ cPc = "Query"
  /\ qPc = "Idle"
  /\ service = "None"
  /\ cResp' = QueryErrorResp(AttributeError)
  /\ cPc' = "Responded"
  /\ UNCHANGED <<started, service, health, cQuestion, cFiles, cK,
                 svars, qvars, ivars, pvars>>

\* service.query(question, k) is called
ChatQueryCall ==
  /\ cPc = "Query"
  /\ service = "RAGService"
  /\ QueryCall(cQuestion, cK)

\* service.query returned or raised
ChatAfterQuery ==
  /\ cPc = "Query"
  /\ qPc \in QTerminal
  /\ cResp' = IF qPc = "Done" THEN Ok(qRet) ELSE QueryErrorResp(qErr)
  /\ cPc' = "Responded"
  /\ UNCHANGED <<started, service, health, cQuestion, cFiles, cK,
                 svars, qvars, ivars, pvars>>

\* the service behind its HTTP layer: startup, then one chat() request
NextChat ==
  \/ Startup
  \/ Health
  \/ \E q \in ChatQuestions, ups \in ChatUploads, kk \in ChatKs :
       ChatCall(q, ups, kk)
  \/ ChatIngestNoService
  \/ ChatIngestCall
  \/ FileParseFails
  \/ FileBlank
  \/ FileSplitFails
  \/ FileChunked
  \/ AddDocumentsOk
  \/ AddDocumentsFail
  \/ ChatAfterIngest
  \/ ChatQueryNoService
  \/ ChatQueryCall
  \/ CreateRetriever
  \/ RetrieveOk
  \/ RetrieveFail
  \/ \E d \in Deltas : StreamDelta(d)
  \/ StreamEnd
  \/ \E e \in Exceptions : StreamFail(e)
  \/ ChatAfterQuery

SpecChat == Init /\ [][NextChat]_vars


\* ------------------------------------------------------- claims on chat()
\* C12: when construction of the core failed at startup, every chat call with
\* a question checks the handle before dispatch and fails with a dedicated
\* "service unavailable" condition, distinct from the generic internal-error
\* and ingestion-failed outcomes; health() still returns {status: ok}.
UnavailableServiceFailsFast ==
  /\ (service = "None" /\ cPc = "Responded" /\ ~AllWhitespace(cQuestion)) =>
       /\ cResp.status # 200
       /\ cResp.detail \notin {"Internal server error", "Ingestion failed"}
  /\ health # None => health.status = "ok"

\* C13: chat() maps the outcome of each stage to a status: blank question 400;
\* ingestion validation error 400, index-write or unexpected error 500; query
\* validation error 400, RAGError 502, any other exception 500; 200 with
\* {answer, sources} only when every executed stage succeeded.
ChatStatusMapping ==
  /\ IngestErrorResp(ValueError("No files provided for ingestion")).status = 400
  /\ QueryErrorResp(ValueError("Empty question provided")).status = 400
  /\ cPc = "Responded" =>
       /\ cResp.status \in {200, 400, 500, 502}
       /\ AllWhitespace(cQuestion) => cResp.status = 400
       /\ iPc = "ValueError" => cResp.status = 400
       /\ iPc = "RAGError" => cResp.status = 500
       /\ qPc = "ValidationError" => cResp.status = 400
       /\ qPc \in {"RetrievalError", "Failed"} => cResp.status = 502
       /\ (service = "None" /\ ~AllWhitespace(cQuestion) /\ cFiles = <<>>)
            => cResp.status = 500
       /\ (cResp.status = 500 /\ iPc # "RAGError") => service = "None"
       /\ cResp.status = 200 =>
            /\ qPc = "Done"
            /\ cFiles # <<>> => iPc = "Returned"
            /\ cResp.body = qRet
            /\ cResp.body.answer = answer
       /\ (qPc = "Done") => cResp.status = 200

\* a request whose upload was ingested and whose generation then failed
BadGatewayAfterIngestion ==
  /\ cPc = "Responded"
  /\ cResp.status = 502
  /\ iPc = "Returned"
  /\ qPc = "Failed"

\* C17: the detail chat() returns for an index-write, retrieval or generation
\* failure is a fixed message of that stage that does not depend on the
\* underlying exception, so runs that differ only in the message of the
\* underlying failure return the same status and detail.
GenericErrorDetail ==
  cPc = "Responded" =>
    /\ iPc = "RAGError" => cResp = Resp(500, "Failed to write to vector store")
    /\ qPc = "RetrievalError" =>
         /\ cResp.status = 502
         /\ cResp.detail \in {"Retrieval layer unavailable", "Retrieval failed"}
         /\ retrieveCalls = 1 => cResp.detail = "Retrieval failed"
    /\ qPc = "Failed" => cResp = Resp(502, "LLM call failed")
    /\ cResp.status \in {500, 502} =>
         \A e \in Exceptions : cResp.detail # e.msg

\* a generation failure reported after two different underlying errors
ReportedGenerationFailure ==
  /\ cPc = "Responded"
  /\ qPc = "Failed"
  /\ llmLog[1].outcome.msg # llmLog[2].outcome.msg

\* C18: with uploaded files, query() is invoked only after ingest_bytes_list
\* returned without error: when reading a file or ingestion fails the request
\* makes no retrieval and no generation call, and every write to the index of
\* the request precedes its retrieval.
QueryOnlyAfterIngestion ==
  /\ []((cFiles # <<>> /\ qPc # "Idle") => iPc = "Returned")
  /\ []((cFiles # <<>> /\ cPc = "Responded" /\ iPc # "Returned") =>
          /\ qPc = "Idle"
          /\ retrieverCalls = 0
          /\ retrieveCalls = 0
          /\ llmLog = <<>>)
  /\ [][store' # store => (qPc = "Idle" /\ qPc' = "Idle")]_vars

\* an answer whose first source is a chunk the request itself ingested
AnsweredFromOwnUpload ==
  /\ cPc = "Responded"
  /\ cResp.status = 200
  /\ addResult = "ok"
  /\ docs # <<>>
  /\ docs[1] = addCalls[1][1]


\* --------------------------------------- ingestion calls at the same time
\* the id source after n ids were drawn: uuid4 never returns a drawn id again
AfterDraw_Reuse(n) == nextId
AfterDraw(n) == nextId + n

\* caller c calls ingest_bytes_list(fs) for the document the other caller
\* ingests too; the empty-list test passes
ConcCall(c, fs) ==
  /\ calls[c].pc = "Idle"
  /\ fs # <<>>
  /\ \A o \in Callers : calls[o].pc # "Idle" => calls[o].files = fs
  /\ calls' = [calls EXCEPT ![c] = [IdleFrame EXCEPT !.pc = "Parse", !.files = fs]]
  /\ UNCHANGED <<svars, qvars, ivars, cvars>>

\* the frame of c after the loop body for its current file left `chunks`:
\* next file, early return, or the ids are drawn and add_documents is called
ConcAfterFile(c, chunks) ==
  LET fr == calls[c] IN
  IF fr.fidx < Len(fr.files)
    THEN /\ calls' = [calls EXCEPT ![c].all_chunks = chunks,
                                   ![c].fidx = fr.fidx + 1, ![c].pc = "Parse"]
         /\ UNCHANGED svars
    ELSE IF chunks = <<>>
      THEN /\ calls' = [calls EXCEPT ![c].all_chunks = chunks,
                                     ![c].fidx = fr.fidx + 1,
                                     ![c].pc = "Returned"]
           /\ UNCHANGED svars
      ELSE /\ calls' = [calls EXCEPT ![c].all_chunks = chunks,
                                     ![c].fidx = fr.fidx + 1,
                                     ![c].pc = "Writing",
                                     ![c].entries = Written(chunks, Len(chunks))]
           /\ nextId' = AfterDraw(Len(chunks))
           /\ UNCHANGED store

\* c parses its current file: skipped when unreadable or without text
ConcParse(c) ==
  /\ calls[c].pc = "Parse"
  /\ LET f == calls[c].files[calls[c].fidx] IN
       IF f.readable /\ HasText(PdfToDocuments(f))
         THEN /\ calls' = [calls EXCEPT ![c].pc = "Chunk"]
              /\ UNCHANGED svars
         ELSE ConcAfterFile(c, OnSkip(calls[c].all_chunks))
  /\ UNCHANGED <<qvars, ivars, cvars>>

\* c splits the documents of its current file, or the split raises
ConcChunk(c) ==
  /\ calls[c].pc = "Chunk"
  /\ \E ok \in BOOLEAN :
       ConcAfterFile(c,
         IF ok THEN calls[c].all_chunks
                      \o SplitDocuments(PdfToDocuments(calls[c].files[calls[c].fidx]))
               ELSE OnSkip(calls[c].all_chunks))
  /\ UNCHANGED <<qvars, ivars, cvars>>

\* add_documents of c writes its next entry; after the last one it returns,
\* persist() is absorbed and so does the call
ConcWrite(c) ==
  /\ calls[c].pc = "Writing"
  /\ LET fr == calls[c]
         n == fr.written + 1
     IN /\ store' = Upsert(store, << fr.entries[n] >>)
        /\ calls' = [calls EXCEPT
                       ![c].written = n,
                       ![c].addResult = IF n = Len(fr.entries) THEN "ok" ELSE @,
                       ![c].pc = IF n = Len(fr.entries) THEN "Returned" ELSE @]
  /\ UNCHANGED <<nextId, qvars, ivars, cvars>>

\* add_documents of c raises before its next entry
ConcWriteFail(c) ==
  /\ calls[c].pc = "Writing"
  /\ calls' = [calls EXCEPT ![c].addResult = "failed", ![c].pc = WriteFailedPc]
  /\ UNCHANGED <<svars, qvars, ivars, cvars>>

ConcStep(c) == ConcParse(c) \/ ConcChunk(c) \/ ConcWrite(c) \/ ConcWriteFail(c)

NextConc ==
  \/ \E c \in Callers, fs \in SingleFileLists : ConcCall(c, fs)
  \/ \E c \in Callers : ConcParse(c)
  \/ \E c \in Callers : ConcChunk(c)
  \/ \E c \in Callers : ConcWrite(c)
  \/ \E c \in Callers : ConcWriteFail(c)

SpecConc == Init /\ [][NextConc]_vars

\* each call runs on its own thread: its next step is eventually taken
FairConc == SpecConc /\ \A c \in Callers : WF_vars(ConcStep(c))

Ids(c) == { calls[c].entries[i].id : i \in 1..Len(calls[c].entries) }

InStore(e) == \E j \in 1..Len(store) : store[j] = e

\* C15: two ingest_bytes_list() calls for the same document running at the
\* same time, under every interleaving of their parse, chunk and write steps,
\* both run to completion without waiting for each other, fail only when their
\* own add_documents raises, and when both succeed the index holds the chunks
\* of both (duplicates) under disjoint id sets.
ConcurrentIngestsBothSucceed ==
  /\ \A c \in Callers :
       (calls[c].pc = "Parse") ~> (calls[c].pc \in {"Returned", "RAGError"})
  /\ [](\A c \in Callers :
          calls[c].pc = "RAGError" => calls[c].addResult = "failed")
  /\ []((\A c \in Callers : calls[c].pc = "Returned") =>
          /\ calls[1].files = calls[2].files
          /\ Ids(1) \cap Ids(2) = {}
          /\ \A c \in Callers : \A i \in 1..Len(calls[c].entries) :
               /\ calls[c].entries[i].doc = calls[c].all_chunks[i]
               /\ InStore(calls[c].entries[i])
          /\ Cardinality({j \in 1..Len(store) : store[j].id >= 3})
               = Len(calls[1].all_chunks) + Len(calls[2].all_chunks)
          /\ \A i, j \in 1..Len(store) : i # j => store[i].id # store[j].id)

\* both calls returned after their writes interleaved in the index
InterleavedWrites ==
  /\ \A c \in Callers : calls[c].pc = "Returned"
  /\ calls[1].all_chunks = calls[2].all_chunks
  /\ \E i, j, l \in 1..Len(store) :
       /\ i < j /\ j < l
       /\ store[i].id \in Ids(1)
       /\ store[j].id \in Ids(2)
       /\ store[l].id \in Ids(1)

====
